---- MODULE Spec2Model ----
(***************************************************************************)
(* Image drawing routines of the Xlib graphics driver                      *)
(* (src/drivers/Xlib/Fl_Xlib_Graphics_Driver_image.cxx): the converter     *)
(* selection figure_out_visual(), the pixel converters, and the streaming  *)
(* blit engine innards() with its entry points.                            *)
(***************************************************************************)
EXTENDS Integers, Sequences, FiniteSets, TLC

(***************************************************************************)
(* Arithmetic helpers: C operators on the value ranges the code uses.      *)
(***************************************************************************)

\* abs() of <stdlib.h>
Abs(v) == IF v < 0 THEN 0 - v ELSE v

Min(a, b) == IF a < b THEN a ELSE b

Max(a, b) == IF a > b THEN a ELSE b

\* 2^n
RECURSIVE Pow2(_)
Pow2(n) == IF n = 0 THEN 1 ELSE 2 * Pow2(n - 1)

\* a & b on non-negative integers
RECURSIVE BitAnd(_, _)
BitAnd(a, b) ==
  IF a = 0 \/ b = 0 THEN 0
  ELSE 2 * BitAnd(a \div 2, b \div 2) + (IF a % 2 = 1 /\ b % 2 = 1 THEN 1 ELSE 0)

\* v & ~m for a non-negative int v and an uchar mask m (~m keeps every bit
\* above bit 7, so the bits of v above bit 7 pass through)
AndNot8(v, m) == v - BitAnd(v % 256, m)

\* v << s
Shl(v, s) == v * Pow2(s)

\* v >> s, v non-negative
Shr(v, s) == v \div Pow2(s)

\* conversion to a 16 bit unsigned (OUTASSIGN into a U16, or two uchars)
U16(v) == v % 65536


(***************************************************************************)
(* The build (config.h) and the X display the process is connected to.     *)
(***************************************************************************)

\* config.h: WORDS_BIGENDIAN, sizeof(STORETYPE) (8 when U64 is defined, else
\* 4), whether U16 is defined, USE_COLORMAP
Build(be, size, u16, cm) ==
  [bigendian |-> be, storesize |-> size, u16 |-> u16, colormap |-> cm]

Builds == { Build(0, 8, TRUE, TRUE), Build(1, 4, TRUE, TRUE), Build(0, 4, FALSE, FALSE) }

\* One X display as figure_out_visual() queries it: the pixmap formats of
\* XListPixmapFormats, fl_visual->depth and ->red_mask, ImageByteOrder, and
\* the masks and shifts fl_xpixel() set up (fl_redmask, fl_redshift, ...).
Disp(name, depth, bits, pad, tc, bo, masks, shifts, extra) ==
  [ name |-> name, depth |-> depth,
    pfvlist |-> << [depth |-> 1, bits_per_pixel |-> 1, scanline_pad |-> pad],
                   [depth |-> depth, bits_per_pixel |-> bits, scanline_pad |-> pad] >>,
    red_mask |-> tc, byte_order |-> bo,
    fl_redmask |-> masks[1], fl_greenmask |-> masks[2], fl_bluemask |-> masks[3],
    fl_redshift |-> shifts[1], fl_greenshift |-> shifts[2], fl_blueshift |-> shifts[3],
    fl_extrashift |-> extra ]

CommonDisplays ==
  { Disp("pal8",    8,  8,  32, FALSE, 0, <<0, 0, 0>>,       <<0, 0, 0>>,    0),
    Disp("rgb565",  16, 16, 32, TRUE,  0, <<248, 252, 248>>, <<11, 6, 0>>,   3),
    Disp("rgb555",  15, 16, 16, TRUE,  0, <<248, 248, 248>>, <<10, 5, 0>>,   3),
    Disp("rgb24",   24, 24, 32, TRUE,  0, <<255, 255, 255>>, <<0, 8, 16>>,   0),
    Disp("bgr24",   24, 24, 8,  TRUE,  1, <<255, 255, 255>>, <<0, 8, 16>>,   0),
    Disp("xrgb32",  24, 32, 32, TRUE,  0, <<255, 255, 255>>, <<16, 8, 0>>,   0),
    Disp("xrgb32m",  24, 32, 32, TRUE,  1, <<255, 255, 255>>, <<16, 8, 0>>,   0),
    Disp("argb32",  32, 32, 32, TRUE,  0, <<255, 255, 255>>, <<16, 8, 0>>,   0),
    Disp("rgb30",   30, 32, 64, TRUE,  0, <<255, 255, 255>>, <<22, 12, 2>>,  0) }

OddDisplays ==
  { Disp("bits12",  12, 12, 32, TRUE,  0, <<240, 240, 240>>, <<4, 0, 0>>,    4),
    Disp("bits4",   4,  4,  32, FALSE, 0, <<0, 0, 0>>,       <<0, 0, 0>>,    0),
    Disp("bits40",  32, 40, 32, TRUE,  0, <<255, 255, 255>>, <<16, 8, 0>>,   0),
    Disp("pal16",   16, 16, 32, FALSE, 0, <<0, 0, 0>>,       <<0, 0, 0>>,    0),
    Disp("odd24",   24, 24, 32, TRUE,  0, <<255, 255, 255>>, <<8, 0, 16>>,   0),
    Disp("pad0",    24, 32, 0,  TRUE,  0, <<255, 255, 255>>, <<16, 8, 0>>,   0),
    Disp("pad1",    24, 32, 1,  TRUE,  0, <<255, 255, 255>>, <<16, 8, 0>>,   0),
    Disp("pad4",    16, 16, 4,  TRUE,  0, <<248, 252, 248>>, <<11, 6, 0>>,   3),
    Disp("pad24",   24, 32, 24, TRUE,  0, <<255, 255, 255>>, <<16, 8, 0>>,   0) }

Displays == CommonDisplays \cup OddDisplays

\* the (display, build) pairs a process starts with: every display under
\* the first build, and the displays the other builds treat differently
Configs ==
  (Displays \X {Build(0, 8, TRUE, TRUE)})
  \cup ({ d \in Displays : d.name \in {"rgb565", "rgb24", "xrgb32", "xrgb32m", "pad0"} }
        \X {Build(1, 4, TRUE, TRUE)})
  \cup ({ d \in Displays : d.name \in {"pal8", "rgb555", "rgb30"} }
        \X {Build(0, 4, FALSE, FALSE)})

(***************************************************************************)
(* Converter selection.                                                    *)
(***************************************************************************)

\* the file's static state that figure_out_visual() assigns, before any draw
\* (zero-initialised statics; xi is the XImage template)
NoVisual ==
  [ bytes_per_pixel |-> 0, scanline_add |-> 0, scanline_mask |-> 0,
    converter |-> "none", mono_converter |-> "none",
    byte_order |-> 0, depth |-> 0, bits_per_pixel |-> 0, fatal |-> FALSE ]

\* for (pfv = pfvlist; ...) if (pfv->depth == fl_visual->depth) break;
FindPfv(d) ==
  LET hits == { i \in 1..Len(d.pfvlist) : d.pfvlist[i].depth = d.depth }
  IN  d.pfvlist[CHOOSE i \in hits : \A k \in hits : i <= k]

\* pfv->scanline_pad & 7 || (n&(n-1)), n = pfv->scanline_pad/8 as unsigned
\* (for n = 0, n-1 is UINT_MAX and the and is 0)
BadPad(pad) ==
  LET n == pad \div 8
  IN  pad % 8 # 0 \/ (n # 0 /\ BitAnd(n, n - 1) # 0)

\* the 2 byte case of the switch
Select16Unbound(d, b, v) ==
  LET w == [v EXCEPT !.byte_order = IF b.u16 THEN b.bigendian ELSE 1]
  IN  IF d.fl_redshift = 11 /\ d.fl_greenshift = 6 /\ d.fl_blueshift = 0
         /\ d.fl_extrashift = 3 /\ v.converter = "none"
      THEN [w EXCEPT !.converter = "c565_converter", !.mono_converter = "m565_converter"]
      ELSE [w EXCEPT !.converter = "color16_converter", !.mono_converter = "mono16_converter"]

Select16(d, b, v) ==
  LET w == [v EXCEPT !.byte_order = IF b.u16 THEN b.bigendian ELSE 1]
  IN  IF d.fl_redshift = 11 /\ d.fl_greenshift = 6 /\ d.fl_blueshift = 0
         /\ d.fl_extrashift = 3
      THEN [w EXCEPT !.converter = "c565_converter", !.mono_converter = "m565_converter"]
      ELSE [w EXCEPT !.converter = "color16_converter", !.mono_converter = "mono16_converter"]

\* the 3 byte case of the switch
Select24(d, b, v) ==
  LET rs == IF v.byte_order # 0 THEN 16 - d.fl_redshift ELSE d.fl_redshift
      gs == IF v.byte_order # 0 THEN 16 - d.fl_greenshift ELSE d.fl_greenshift
      bs == IF v.byte_order # 0 THEN 16 - d.fl_blueshift ELSE d.fl_blueshift
  IN  IF rs = 0 /\ gs = 8 /\ bs = 16
      THEN [v EXCEPT !.converter = "rgb_converter", !.mono_converter = "rrr_converter"]
      ELSE IF rs = 16 /\ gs = 8 /\ bs = 0
      THEN [v EXCEPT !.converter = "bgr_converter", !.mono_converter = "rrr_converter"]
      ELSE [v EXCEPT !.fatal = TRUE]

\* the 4 byte case of the switch
Select32(d, b, v) ==
  LET flip == (IF v.byte_order # 0 THEN 1 ELSE 0) # b.bigendian
      rs == IF flip THEN 24 - d.fl_redshift ELSE d.fl_redshift
      gs == IF flip THEN 24 - d.fl_greenshift ELSE d.fl_greenshift
      bs == IF flip THEN 24 - d.fl_blueshift ELSE d.fl_blueshift
  IN  IF rs = 0 /\ gs = 8 /\ bs = 16
      THEN [v EXCEPT !.converter = "xbgr_converter", !.mono_converter = "xrrr_converter"]
      ELSE IF rs = 24 /\ gs = 16 /\ bs = 8
      THEN [v EXCEPT !.converter = "rgbx_converter", !.mono_converter = "rrrx_converter"]
      ELSE IF rs = 8 /\ gs = 16 /\ bs = 24
      THEN [v EXCEPT !.converter = "bgrx_converter", !.mono_converter = "rrrx_converter"]
      ELSE IF rs = 16 /\ gs = 8 /\ bs = 0
      THEN [v EXCEPT !.converter = "xrgb_converter", !.mono_converter = "xrrr_converter"]
      ELSE [v EXCEPT !.byte_order = b.bigendian,
                     !.converter = "color32_converter",
                     !.mono_converter = "mono32_converter"]

\* static void figure_out_visual(): v is the static state on entry, the
\* result the state on return or at the Fl::fatal() call (fatal = TRUE)
figure_out_visual(d, b, v) ==
  LET pfv == FindPfv(d)
      bits == pfv.bits_per_pixel
      v1 == [v EXCEPT !.byte_order = d.byte_order, !.depth = d.depth,
                      !.bits_per_pixel = bits,
                      !.bytes_per_pixel = IF bits % 8 # 0 THEN 0 ELSE bits \div 8]
      n0 == pfv.scanline_pad \div 8
      n  == IF n0 < b.storesize THEN b.storesize ELSE n0
      v2 == [v1 EXCEPT !.scanline_add = n - 1, !.scanline_mask = 0 - n]
  IN  IF BadPad(pfv.scanline_pad) THEN [v1 EXCEPT !.fatal = TRUE]
      ELSE IF b.colormap /\ v2.bytes_per_pixel = 1
      THEN [v2 EXCEPT !.converter = "color8_converter", !.mono_converter = "mono8_converter"]
      ELSE IF b.colormap /\ ~d.red_mask THEN [v2 EXCEPT !.fatal = TRUE]
      ELSE IF v2.bytes_per_pixel = 2 THEN Select16(d, b, v2)
      ELSE IF v2.bytes_per_pixel = 3 THEN Select24(d, b, v2)
      ELSE IF v2.bytes_per_pixel = 4 THEN Select32(d, b, v2)
      ELSE [v2 EXCEPT !.fatal = TRUE]


(***************************************************************************)
(* State.                                                                  *)
(***************************************************************************)

VARIABLES
  display,          \* the X display (fl_display, fl_visual, fl_redshift, ...)
  build,            \* the config.h the file was compiled with
  bytes_per_pixel,  \* static int bytes_per_pixel
  scanline_add,     \* static int scanline_add
  scanline_mask,    \* static int scanline_mask
  converter,        \* static void (*converter)(...)
  mono_converter,   \* static void (*mono_converter)(...)
  xi,               \* static XImage xi
  dir,              \* static int dir
  ri, gi, bi,       \* static int ri,gi,bi
  buffer_size,      \* static long buffer_size (innards)
  gc32,             \* static GC gc32 (innards): TRUE once created
  pc,               \* "idle", "loop" (inside a chunk loop of innards), "fatal"
  fr,               \* arguments and locals of the current or last innards() call
  blits,            \* the XPutImage calls of the current or last innards() call
  cbcalls,          \* the cb() calls of the current or last innards() call
  selections,       \* number of figure_out_visual() calls so far
  selected,         \* bytes_per_pixel, xi.depth, xi.bits_per_pixel when it returned
  started,          \* TRUE once a draw got past the clip test
  lastcall,         \* the last converter call on a row of samples: converter,
                    \* dither state before, source row, destination row, range
                    \* of the running r, g, b
  blend             \* the last alpha_blend() call: image, rectangle, the bytes
                    \* read back and the bytes handed to fl_draw_image()

vars ==
  << display, build, bytes_per_pixel, scanline_add, scanline_mask, converter,
     mono_converter, xi, dir, ri, gi, bi, buffer_size, gc32, pc, fr, blits,
     cbcalls, selections, selected, started, lastcall, blend >>

\* length at which the logs blits and cbcalls stop growing
MaxLog == 4

\* value at which the counter selections stops growing
MaxCount == 3

\* #define MAXBUFFER 0x40000 // 256k
MAXBUFFER == 262144

\* FL_IMAGE_WITH_ALPHA of FL/fl_draw.H, the flag or-ed into the depth argument
FL_IMAGE_WITH_ALPHA == 1073741824

(***************************************************************************)
(* The streaming blit engine innards().                                    *)
(***************************************************************************)

\* v & scanline_add: scanline_add is n-1 for a power of two n, so the and
\* keeps the low bits of the two's complement v
AndAdd(v, add) == v % (add + 1)

\* v & scanline_mask: scanline_mask is -n for a power of two n, so the and
\* clears the low bits of v
AndMask(v, mask) == v - (v % (0 - mask))

\* d ^= FL_IMAGE_WITH_ALPHA on a 32 bit two's complement int
\* (bit 30 of a negative d is set exactly when d >= -2^30)
XorAlpha(d) ==
  IF (d >= 0 /\ (d \div FL_IMAGE_WITH_ALPHA) % 2 = 1) \/ (d < 0 /\ d >= 0 - FL_IMAGE_WITH_ALPHA)
  THEN d - FL_IMAGE_WITH_ALPHA ELSE d + FL_IMAGE_WITH_ALPHA

\* no clip region set (fl_clip_region() is null)
NoClip == [on |-> FALSE, x |-> 0, y |-> 0, w |-> 0, h |-> 0]

\* fl_clip_box(X,Y,W,H,x,y,w,h): the bounding box of the intersection of the
\* rectangle with the current clip region, here one rectangle or none
fl_clip_box(X, Y, W, H, clip) ==
  IF ~clip.on THEN [x |-> X, y |-> Y, w |-> W, h |-> H]
  ELSE LET x1 == Max(X, clip.x)
           y1 == Max(Y, clip.y)
           x2 == Min(X + W, clip.x + clip.w)
           y2 == Min(Y + H, clip.y + clip.h)
       IN  IF x2 <= x1 \/ y2 <= y1
           THEN [x |-> X, y |-> Y, w |-> 0, h |-> 0]
           ELSE [x |-> x1, y |-> y1, w |-> x2 - x1, h |-> y2 - y1]

\* the converters that read and write dir, ri, gi, bi
Dithering ==
  { "color8_converter", "mono8_converter", "color16_converter",
    "mono16_converter", "c565_converter", "m565_converter" }

\* of these, the ones that keep only ri
DitheringMono16 == { "mono16_converter", "m565_converter" }

\* the static state as the record figure_out_visual() works on
Visual ==
  [ bytes_per_pixel |-> bytes_per_pixel, scanline_add |-> scanline_add,
    scanline_mask |-> scanline_mask, converter |-> converter,
    mono_converter |-> mono_converter, byte_order |-> xi.byte_order,
    depth |-> xi.depth, bits_per_pixel |-> xi.bits_per_pixel, fatal |-> FALSE ]

\* if (!bytes_per_pixel) figure_out_visual();
NeedVisual == bytes_per_pixel = 0

\* const unsigned oldbpp = bytes_per_pixel; after the selection: entry is
\* bytes_per_pixel when innards() was entered, v the state after selection
OldBppEarly(entry, v) == entry

OldBpp(entry, v) == v.bytes_per_pixel

\* dx -= X; dy -= Y; after fl_clip_box
ClipOffset(c, X, Y) == [dx |-> c.x - X, dy |-> c.y - Y]

\* buf+delta*dx+linedelta*dy, as an offset from buf
SourceStart(delta, linedelta, dx, dy) == delta * dx + linedelta * dy

\* the fast path test: the data is already in the right format
FastPath(buf, conv, delta, linedelta, add) ==
  buf /\ conv = "rgb_converter" /\ delta = 3 /\ AndAdd(linedelta, add) = 0

\* int linesize = ((w*bytes_per_pixel+scanline_add)&scanline_mask)/sizeof(STORETYPE)
LineSize(w, bpp, add, mask, storesize) ==
  AndMask(w * bpp + add, mask) \div storesize

\* a * b does not fit a 32 bit int (a, b >= 0)
IntOverflows(a, b) == a > 0 /\ b > 0 /\ a > 2147483647 \div b

\* the low 32 bits of a * b as a two's complement int (0 <= a, b < 2^31),
\* from the 16 bit halves of a and b
WrapMul(a, b) ==
  LET a1 == a \div 65536
      a0 == a % 65536
      b1 == b \div 65536
      b0 == b % 65536
      x  == (a0 \div 256) * b0
      y  == (a0 % 256) * b0
      l  == ((x % 256) * 256) + y
      lo == l % 65536
      hi == ((x \div 256) + (l \div 65536) + ((a1 * b0) % 65536)
             + ((a0 * b1) % 65536)) % 65536
  IN  (IF hi >= 32768 THEN hi - 65536 ELSE hi) * 65536 + lo

\* int size = linesize*h: the product, or, when it overflows the int
\* (undefined behaviour), its low 32 bits or a value that compares as large
Sizes(linesize, h) ==
  IF IntOverflows(linesize, h) THEN { WrapMul(linesize, h), 2147483647 }
  ELSE { linesize * h }

\* int blocking = h; if (size > MAXBUFFER) blocking = MAXBUFFER/linesize;
Blocking(size, linesize, h) ==
  IF size > MAXBUFFER THEN MAXBUFFER \div linesize ELSE h

\* if (size > MAXBUFFER) size = MAXBUFFER;
\* if (size > buffer_size) {...; buffer_size = size; ...}
GrowBuffer(size, old) ==
  LET capped == IF size > MAXBUFFER THEN MAXBUFFER ELSE size
  IN  IF capped > old THEN capped ELSE old

\* if (alpha) {bytes_per_pixel = oldbpp; xi.depth = fl_visual->depth;
\*             xi.bits_per_pixel = oldbpp * 8;}
RestoreXi(x, alpha, oldbpp) ==
  IF alpha THEN [x EXCEPT !.depth = display.depth, !.bits_per_pixel = oldbpp * 8]
  ELSE x

RestoreBppKeep(cur, alpha, oldbpp) == cur

RestoreBpp(cur, alpha, oldbpp) == IF alpha THEN oldbpp ELSE cur

\* lastcall before the first converter call
NoCall ==
  [ conv |-> "none", n |-> 0, dir |-> 0, ri |-> 0, gi |-> 0, bi |-> 0, from |-> << >>,
    to |-> << >>, lo |-> 0, hi |-> 0, clo |-> 0, chi |-> 0, seen |-> << >> ]

\* blend before the first alpha_blend() call
NoBlend ==
  [ img |-> [w |-> 0, h |-> 0, d |-> 0, ld |-> 0, array |-> << >>],
    X |-> 0, Y |-> 0, W |-> 0, H |-> 0, cx |-> 0, cy |-> 0,
    read |-> << >>, dst |-> << >> ]

\* fr before the first call
NoFrame ==
  [ buf |-> FALSE, X |-> 0, Y |-> 0, W |-> 0, H |-> 0, delta |-> 0,
    linedelta |-> 0, mono |-> FALSE, alpha |-> FALSE, clip |-> NoClip,
    dx |-> 0, dy |-> 0, w |-> 0, h |-> 0, oldbpp |-> 0, conv |-> "none",
    gc |-> "gc", fast |-> FALSE, linesize |-> 0, blocking |-> 0, j |-> 0,
    bufp |-> 0 ]

\* innards() from its entry to the first chunk loop test, to its return on
\* the empty-clip and fast paths, or to the Fl::fatal() of figure_out_visual()
innards(buf, X, Y, W, H, delta, linedelta0, mono, alpha, clip) ==
  LET linedelta == IF linedelta0 = 0 THEN W * Abs(delta) ELSE linedelta0
      c   == fl_clip_box(X, Y, W, H, clip)
      o   == ClipOffset(c, X, Y)
      f0  == [NoFrame EXCEPT !.buf = buf, !.X = X, !.Y = Y, !.W = W, !.H = H,
                 !.delta = delta, !.linedelta = linedelta, !.mono = mono,
                 !.alpha = alpha, !.clip = clip, !.w = c.w, !.h = c.h]
      v   == IF NeedVisual THEN figure_out_visual(display, build, Visual) ELSE Visual
      oldbpp == OldBpp(bytes_per_pixel, v)
      conv == IF alpha THEN "argb_premul_converter"
              ELSE IF mono THEN v.mono_converter ELSE v.converter
      bpp  == IF alpha THEN 4 ELSE v.bytes_per_pixel
      gc   == IF alpha /\ display.depth # 32 THEN "gc32" ELSE "gc"
      x1   == [xi EXCEPT !.byte_order = v.byte_order, !.width = c.w, !.height = c.h,
                 !.depth = IF alpha THEN 32 ELSE v.depth,
                 !.bits_per_pixel = IF alpha THEN 32 ELSE v.bits_per_pixel]
      fast == FastPath(buf, conv, delta, linedelta, v.scanline_add)
      linesize == LineSize(c.w, bpp, v.scanline_add, v.scanline_mask, build.storesize)
      f1   == [f0 EXCEPT !.dx = o.dx, !.dy = o.dy, !.oldbpp = oldbpp, !.conv = conv,
                 !.gc = gc, !.fast = fast]
  IN  /\ blits' = << >>
      /\ cbcalls' = << >>
      /\ UNCHANGED << display, build, dir, ri, gi, bi, lastcall >>
      /\ IF c.w <= 0 \/ c.h <= 0
         THEN /\ fr' = f0
              /\ pc' = "idle"
              /\ UNCHANGED << bytes_per_pixel, scanline_add, scanline_mask, converter,
                              mono_converter, xi, buffer_size, gc32, selections,
                              selected, started >>
         ELSE /\ started' = TRUE
              /\ selections' = IF NeedVisual THEN Min(selections + 1, MaxCount)
                               ELSE selections
              /\ scanline_add' = v.scanline_add
              /\ scanline_mask' = v.scanline_mask
              /\ converter' = v.converter
              /\ mono_converter' = v.mono_converter
              /\ IF v.fatal
                 THEN /\ pc' = "fatal"
                      /\ fr' = f0
                      /\ bytes_per_pixel' = v.bytes_per_pixel
                      /\ xi' = [xi EXCEPT !.byte_order = v.byte_order, !.depth = v.depth,
                                          !.bits_per_pixel = v.bits_per_pixel]
                      /\ UNCHANGED << buffer_size, gc32, selected >>
                 ELSE /\ selected' = IF NeedVisual
                                     THEN [bytes_per_pixel |-> v.bytes_per_pixel,
                                           depth |-> v.depth,
                                           bits_per_pixel |-> v.bits_per_pixel,
                                           converter |-> v.converter,
                                           mono_converter |-> v.mono_converter]
                                     ELSE selected
                      /\ gc32' = (gc32 \/ gc = "gc32")
                      /\ IF fast
                         THEN /\ xi' = RestoreXi(
                                        [x1 EXCEPT !.data = [kind |-> "buf",
                                             off |-> SourceStart(delta, linedelta, o.dx, o.dy)],
                                           !.bytes_per_line = linedelta],
                                        alpha, oldbpp)
                              /\ bytes_per_pixel' = RestoreBpp(bpp, alpha, oldbpp)
                              /\ fr' = f1
                              /\ pc' = "idle"
                              /\ UNCHANGED buffer_size
                         ELSE /\ xi' = [x1 EXCEPT !.data = [kind |-> "buffer", off |-> 0],
                                           !.bytes_per_line = linesize * build.storesize]
                              /\ bytes_per_pixel' = bpp
                              /\ \E size \in Sizes(linesize, c.h) :
                                   /\ buffer_size' = GrowBuffer(size, buffer_size)
                                   /\ fr' = [f1 EXCEPT !.linesize = linesize,
                                               !.blocking = Blocking(size, linesize, c.h),
                                               !.j = 0,
                                               !.bufp = IF buf
                                                        THEN SourceStart(delta, linedelta,
                                                                         o.dx, o.dy)
                                                        ELSE 0]
                              /\ pc' = "loop"


\* log with one more entry, up to MaxLog entries
Logged(log, e) == IF Len(log) < MaxLog THEN Append(log, e) ELSE log

\* the inner loop: for (k = 0; j<h && k<blocking; k++, j++) {...}, in buffer
\* mode (conv; buf += linedelta) and in callback mode (cb; conv)
RECURSIVE InnerLoop(_)
InnerLoop(s) ==
  IF s.j < fr.h /\ s.k < fr.blocking
  THEN InnerLoop(
         [s EXCEPT
            !.rows = Append(@, IF fr.buf
                               THEN [cb |-> FALSE, off |-> s.bufp, x |-> 0, y |-> 0]
                               ELSE [cb |-> TRUE, off |-> 0, x |-> fr.dx, y |-> fr.dy + s.j]),
            !.cbs = IF fr.buf THEN @
                    ELSE Logged(@, [x |-> fr.dx, y |-> fr.dy + s.j, w |-> fr.w]),
            !.dir = IF fr.conv \in Dithering THEN 1 - @ ELSE @,
            !.bufp = IF fr.buf THEN @ + fr.linedelta ELSE @,
            !.k = @ + 1,
            !.j = @ + 1])
  ELSE s

\* error-diffusion values a converted row can leave in ri, gi, bi (they
\* depend on the samples of the row)
Residues == { <<0, 0, 0>>, <<5, 2, 7>> }

\* one pass of the outer loop for (int j=0; j<h; ) {...}: the inner loop and
\* XPutImage(fl_display,fl_window,gc, &xi, 0, 0, X+dx, Y+dy+j-k, w, k)
Chunk ==
  /\ pc = "loop"
  /\ fr.j < fr.h
  /\ LET s == InnerLoop([j |-> fr.j, k |-> 0, bufp |-> fr.bufp, rows |-> << >>,
                         cbs |-> cbcalls, dir |-> dir])
     IN  /\ fr' = [fr EXCEPT !.j = s.j, !.bufp = s.bufp]
         /\ dir' = s.dir
         /\ cbcalls' = s.cbs
         /\ blits' = Logged(blits,
                       [x |-> fr.X + fr.dx, y |-> fr.Y + fr.dy + s.j - s.k,
                        w |-> fr.w, h |-> s.k, rows |-> s.rows, gc |-> fr.gc,
                        bits_per_pixel |-> xi.bits_per_pixel,
                        bytes_per_line |-> xi.bytes_per_line])
         /\ IF s.k > 0 /\ fr.conv \in Dithering
            THEN \E e \in Residues :
                   /\ ri' = e[1]
                   /\ gi' = IF fr.conv \in DitheringMono16 THEN gi ELSE e[2]
                   /\ bi' = IF fr.conv \in DitheringMono16 THEN bi ELSE e[3]
            ELSE UNCHANGED << ri, gi, bi >>
  /\ UNCHANGED << display, build, bytes_per_pixel, scanline_add, scanline_mask,
                  converter, mono_converter, xi, buffer_size, gc32, pc,
                  selections, selected, started, lastcall, blend >>

\* the outer loop ends (j >= h) and innards() returns through if (alpha) {...}
Return ==
  /\ pc = "loop"
  /\ fr.j >= fr.h
  /\ pc' = "idle"
  /\ bytes_per_pixel' = RestoreBpp(bytes_per_pixel, fr.alpha, fr.oldbpp)
  /\ xi' = RestoreXi(xi, fr.alpha, fr.oldbpp)
  /\ UNCHANGED << display, build, scanline_add, scanline_mask, converter,
                  mono_converter, dir, ri, gi, bi, buffer_size, gc32, fr, blits,
                  cbcalls, selections, selected, started, lastcall, blend >>

(***************************************************************************)
(* Entry points and their arguments.                                       *)
(***************************************************************************)

Rect(X, Y, W, H, clip) == [X |-> X, Y |-> Y, W |-> W, H |-> H, clip |-> clip]

\* target rectangles with the clip region in force: unclipped, partly
\* clipped, fully clipped away, zero height, wider than one chunk of rows,
\* wider than the whole working buffer
Rects ==
  { Rect(0, 0, 8, 2, NoClip),
    Rect(1, 1, 4, 3, [on |-> TRUE, x |-> 2, y |-> 2, w |-> 8, h |-> 8]),
    Rect(0, 0, 4, 2, [on |-> TRUE, x |-> 10, y |-> 10, w |-> 4, h |-> 4]),
    Rect(3, 0, 8, 0, NoClip),
    Rect(0, 2, 300000, 3, NoClip),
    Rect(0, 5, 2200000, 1, NoClip) }

\* (d, l) of draw_image(buf, ...)
BufDepths ==
  { <<3, 0>>, <<1, 0>>, <<0 - 3, 0>>, <<4 + FL_IMAGE_WITH_ALPHA, 0>> }

\* d of draw_image(cb, ...)
CbDepths == { 3, 4 + FL_IMAGE_WITH_ALPHA }

\* (d, l) of draw_image_mono(buf, ...)
MonoDepths == { <<3, 0>> }

\* Fl_Xlib_Graphics_Driver::draw_image(const uchar* buf, x, y, w, h, d, l)
draw_image ==
  /\ pc = "idle"
  /\ \E r \in Rects, a \in BufDepths :
       LET alpha == BitAnd(Abs(a[1]), FL_IMAGE_WITH_ALPHA) # 0
           d == IF alpha THEN XorAlpha(a[1]) ELSE a[1]
           mono == d > 0 - 3 /\ d < 3
       IN  innards(TRUE, r.X, r.Y, r.W, r.H, d, a[2], mono, alpha, r.clip)
  /\ UNCHANGED blend

\* Fl_Xlib_Graphics_Driver::draw_image(Fl_Draw_Image_Cb cb, data, x, y, w, h, d)
draw_image_cb ==
  /\ pc = "idle"
  /\ \E r \in Rects, a \in CbDepths :
       LET alpha == BitAnd(Abs(a), FL_IMAGE_WITH_ALPHA) # 0
           d == IF alpha THEN XorAlpha(a) ELSE a
           mono == d > 0 - 3 /\ d < 3
       IN  innards(FALSE, r.X, r.Y, r.W, r.H, d, 0, mono, alpha, r.clip)
  /\ UNCHANGED blend

\* Fl_Xlib_Graphics_Driver::draw_image_mono(const uchar* buf, x, y, w, h, d, l)
draw_image_mono ==
  /\ pc = "idle"
  /\ \E r \in Rects, a \in MonoDepths :
       innards(TRUE, r.X, r.Y, r.W, r.H, a[1], a[2], TRUE, FALSE, r.clip)
  /\ UNCHANGED blend

\* Fl_Xlib_Graphics_Driver::draw_image_mono(Fl_Draw_Image_Cb cb, data, x, y, w, h, d)
draw_image_mono_cb ==
  /\ pc = "idle"
  /\ \E r \in Rects :
       innards(FALSE, r.X, r.Y, r.W, r.H, 1, 0, TRUE, FALSE, r.clip)
  /\ UNCHANGED blend

\* fl_rectf(x, y, w, h, r, g, b): through innards() on displays of depth <= 16
\* fl_rectf draws from one pixel (delta 0, linedelta 0), so the rectangle is
\* not limited by the size of a source buffer: one whose linesize*h does not
\* fit an int on the builds with a 4 byte STORETYPE
RectfRects == Rects \cup { Rect(0, 0, 400000000, 11, NoClip) }

fl_rectf ==
  /\ pc = "idle"
  /\ \E r \in RectfRects :
       IF display.depth > 16
       THEN UNCHANGED vars
       ELSE innards(TRUE, r.X, r.Y, r.W, r.H, 0, 0, FALSE, FALSE, r.clip)
              /\ UNCHANGED blend

(***************************************************************************)
(* The drawing process.                                                    *)
(***************************************************************************)

Init ==
  /\ \E c \in Configs : display = c[1] /\ build = c[2]
  /\ bytes_per_pixel = 0
  /\ scanline_add = 0
  /\ scanline_mask = 0
  /\ converter = "none"
  /\ mono_converter = "none"
  /\ xi = [byte_order |-> 0, depth |-> 0, bits_per_pixel |-> 0, width |-> 0,
           height |-> 0, data |-> [kind |-> "null", off |-> 0], bytes_per_line |-> 0]
  /\ dir = 0
  /\ ri = 0
  /\ gi = 0
  /\ bi = 0
  /\ buffer_size = 0
  /\ gc32 = FALSE
  /\ pc = "idle"
  /\ fr = NoFrame
  /\ blits = << >>
  /\ cbcalls = << >>
  /\ selections = 0
  /\ selected = [bytes_per_pixel |-> 0, depth |-> 0, bits_per_pixel |-> 0,
                 converter |-> "none", mono_converter |-> "none"]
  /\ started = FALSE
  /\ lastcall = NoCall
  /\ blend = NoBlend

Next ==
  \/ draw_image
  \/ draw_image_cb
  \/ draw_image_mono
  \/ draw_image_mono_cb
  \/ fl_rectf
  \/ Chunk
  \/ Return

Spec == Init /\ [][Next]_vars


(***************************************************************************)
(* Properties of the blit engine and of the converter selection.           *)
(***************************************************************************)

\* the last innards() call has returned
Returned == pc = "idle" /\ fr # NoFrame

\* the visible intersection of the last call's rectangle
Visible == fl_clip_box(fr.X, fr.Y, fr.W, fr.H, fr.clip)

\* the destination rows the logged blits cover
BlitRows == UNION { blits[i].y .. (blits[i].y + blits[i].h - 1) : i \in 1..Len(blits) }

\* every converted row of every logged blit comes from the source row and
\* column of its destination
SourcesMatch ==
  \A i \in 1..Len(blits) : \A t \in 1..Len(blits[i].rows) :
    LET b == blits[i]
        y == b.y + t - 1
    IN  IF fr.buf
        THEN b.rows[t].off = fr.delta * (b.x - fr.X) + fr.linedelta * (y - fr.Y)
        ELSE b.rows[t].y = y - fr.Y /\ b.rows[t].x = b.x - fr.X

\* C1: a returned draw with an empty intersection made no blit and no
\* callback call; any other returned draw blitted exactly the intersection of
\* its rectangle with the clip area, each row converted from the source row
\* and column of its destination.
C1_ClippedBlit ==
  Returned =>
    IF Visible.w <= 0 \/ Visible.h <= 0
    THEN blits = << >> /\ cbcalls = << >>
    ELSE /\ blits # << >>
         /\ \A i \in 1..Len(blits) : blits[i].x = Visible.x /\ blits[i].w = Visible.w
         /\ BlitRows = Visible.y .. (Visible.y + Visible.h - 1)
         /\ SourcesMatch

\* the last call took the general (converting) path
General == fr # NoFrame /\ pc # "fatal" /\ fr.w > 0 /\ fr.h > 0 /\ ~fr.fast

\* sum of the row counts of the first n logged blits
RECURSIVE RowsBefore(_)
RowsBefore(n) == IF n = 0 THEN 0 ELSE RowsBefore(n - 1) + blits[n].h

\* C2: on the general path the blits carry between 1 and blocking rows each,
\* start where the previous one ended, beginning at row Y+dy, and once the
\* call has returned their row counts sum to h; more than one blit is made
\* when linesize*h exceeds MAXBUFFER.
C2_ChunksTile ==
  General =>
    /\ \A i \in 1..Len(blits) :
         /\ 1 <= blits[i].h /\ blits[i].h <= fr.blocking
         /\ blits[i].y = fr.Y + fr.dy + RowsBefore(i - 1)
    /\ RowsBefore(Len(blits)) <= fr.h
    /\ pc = "idle" => RowsBefore(Len(blits)) = fr.h
    /\ (pc = "idle" /\ fr.linesize * fr.h > MAXBUFFER) => Len(blits) > 1

\* C3: a returned draw that took the fast path with a non-empty region has
\* blitted the clipped w x h region straight from the source buffer at
\* buf + delta*dx + linedelta*dy with bytes_per_line = linedelta.
C3_FastPathBlits ==
  (Returned /\ fr.fast) =>
    /\ xi.data = [kind |-> "buf", off |-> fr.delta * fr.dx + fr.linedelta * fr.dy]
    /\ xi.bytes_per_line = fr.linedelta
    /\ Len(blits) = 1
    /\ blits[1].x = fr.X + fr.dx /\ blits[1].y = fr.Y + fr.dy
    /\ blits[1].w = fr.w /\ blits[1].h = fr.h

\* scanline_pad is a power of two that is >= 8
PadOk(pad) == \E e \in 3..30 : pad = Pow2(e)

\* C4: once figure_out_visual() has run, a display whose bits_per_pixel is
\* not 8, 16, 24 or 32 or whose scanline_pad is not a power of two >= 8 has
\* ended in Fl::fatal() with no converter bound, and any other true-colour
\* 16 or 32 bit display has both converters bound and is not fatal.
C4_FatalOrBound ==
  LET pfv == FindPfv(display)
  IN  selections > 0 =>
        IF pfv.bits_per_pixel \notin {8, 16, 24, 32} \/ ~PadOk(pfv.scanline_pad)
        THEN pc = "fatal" /\ converter = "none" /\ mono_converter = "none"
        ELSE (display.red_mask /\ pfv.bits_per_pixel \in {16, 32}) =>
               pc # "fatal" /\ converter # "none" /\ mono_converter # "none"

\* C5: every pass of a chunk loop advances the row counter j, so a draw that
\* entered a chunk loop reaches its return.
C5_LoopProgress == [][(pc = "loop" /\ pc' = "loop") => fr'.j > fr.j]_vars

\* C6: figure_out_visual() has run exactly once as soon as one draw got
\* past the clip test, and not at all before; afterwards bytes_per_pixel is
\* never 0.
C6_SelectedOnce ==
  /\ selections = IF started THEN 1 ELSE 0
  /\ (started /\ pc # "fatal") => bytes_per_pixel # 0

\* a non-alpha draw is inside its chunk loop after an alpha draw returned
C6_Witness ==
  pc = "loop" /\ ~fr.alpha /\ gc32 /\ selections = 1 /\ bytes_per_pixel # 4

\* C7: whenever no draw is in progress after the selection, bytes_per_pixel,
\* xi.depth and xi.bits_per_pixel hold the values figure_out_visual() left,
\* and the bound converters are the selected ones.
C7_Restored ==
  (pc = "idle" /\ started) =>
    /\ bytes_per_pixel = selected.bytes_per_pixel
    /\ xi.depth = selected.depth
    /\ xi.bits_per_pixel = selected.bits_per_pixel
    /\ converter = selected.converter
    /\ mono_converter = selected.mono_converter

\* an alpha draw through the chunk loop has returned on a display that is
\* not 32 bits deep
C7_Witness ==
  Returned /\ fr.alpha /\ blits # << >> /\ selected.bytes_per_pixel # 4
  /\ display.depth # 32


(***************************************************************************)
(* The pixel converters.  A source row is a sequence of pixels, a pixel    *)
(* the samples from[0..3] at one position; the destination row holds one   *)
(* value per pixel.                                                        *)
(***************************************************************************)

\* FL_NUM_RED, FL_NUM_GREEN, FL_NUM_BLUE, FL_COLOR_CUBE of FL/Enumerations.H
FL_NUM_RED == 5

FL_NUM_GREEN == 8

FL_NUM_BLUE == 5

FL_COLOR_CUBE == 56

\* fl_color_cube(r, g, b) of FL/Enumerations.H
fl_color_cube(r, g, b) == (b * FL_NUM_RED + r) * FL_NUM_GREEN + g + FL_COLOR_CUBE

\* fl_xmap[0][i] for the colour cube entry of levels (r, g, b): the colour
\* the display allocated for it and its pixel value
Xmap(r, g, b) ==
  [ r |-> (r * 255) \div (FL_NUM_RED - 1), g |-> (g * 255) \div (FL_NUM_GREEN - 1),
    b |-> (b * 255) \div (FL_NUM_BLUE - 1), pixel |-> fl_color_cube(r, g, b) % 256 ]

\* if (r < 0) r = 0; else if (r>255) r = 255;
ClampNoFloor(v) == IF v > 255 THEN 255 ELSE v

Clamp(v) == IF v < 0 THEN 0 ELSE IF v > 255 THEN 255 ELSE v

\* if (r>255) r = 255;
ClampHiOff(v) == v

ClampHi(v) == IF v > 255 THEN 255 ELSE v

\* a 32 bit word as [hi: bits 24..31, lo: bits 0..23]; the sum, modulo 2^32,
\* of the terms v << s
RECURSIVE SumLo(_)
SumLo(terms) ==
  IF terms = << >> THEN 0
  ELSE LET t == Head(terms)
       IN  (IF t[2] < 24 THEN Shl(t[1], t[2]) % 16777216 ELSE 0) + SumLo(Tail(terms))

RECURSIVE SumHi(_)
SumHi(terms) ==
  IF terms = << >> THEN 0
  ELSE LET t == Head(terms)
       IN  (IF t[2] < 24 THEN Shl(t[1], t[2]) \div 16777216 ELSE Shl(t[1], t[2] - 24))
           + SumHi(Tail(terms))

Pack32(terms) ==
  [ hi |-> (SumHi(terms) + SumLo(terms) \div 16777216) % 256,
    lo |-> SumLo(terms) % 16777216 ]

\* one pass of the loop body of color8_converter
Color8Px(a, p) ==
  LET r == Clamp(a.r + p[1])
      g == Clamp(a.g + p[2])
      b == Clamp(a.b + p[3])
      xmap == Xmap((r * FL_NUM_RED) \div 256, (g * FL_NUM_GREEN) \div 256,
                   (b * FL_NUM_BLUE) \div 256)
  IN  [r |-> r - xmap.r, g |-> g - xmap.g, b |-> b - xmap.b, word |-> xmap.pixel,
       c |-> {r, g, b}]

\* one pass of the loop body of mono8_converter
Mono8Px(a, p) ==
  LET r == Clamp(a.r + p[1])
      g == Clamp(a.g + p[1])
      b == Clamp(a.b + p[1])
      xmap == Xmap((r * FL_NUM_RED) \div 256, (g * FL_NUM_GREEN) \div 256,
                   (b * FL_NUM_BLUE) \div 256)
  IN  [r |-> r - xmap.r, g |-> g - xmap.g, b |-> b - xmap.b, word |-> xmap.pixel,
       c |-> {r, g, b}]

\* one pass of the loop body of color16_converter
Color16Px(d, a, p) ==
  LET r == ClampHi(AndNot8(a.r, d.fl_redmask) + p[1])
      g == ClampHi(AndNot8(a.g, d.fl_greenmask) + p[2])
      b == ClampHi(AndNot8(a.b, d.fl_bluemask) + p[3])
  IN  [r |-> r, g |-> g, b |-> b,
       word |-> U16(Shr(Shl(BitAnd(r, d.fl_redmask), d.fl_redshift)
                        + Shl(BitAnd(g, d.fl_greenmask), d.fl_greenshift)
                        + Shl(BitAnd(b, d.fl_bluemask), d.fl_blueshift),
                        d.fl_extrashift)),
       c |-> {r, g, b}]

\* one pass of the loop body of mono16_converter
Mono16Px(d, a, p) ==
  LET mask == BitAnd(BitAnd(d.fl_redmask, d.fl_greenmask), d.fl_bluemask)
      r == ClampHi(AndNot8(a.r, mask) + p[1])
      m == BitAnd(r, mask)
  IN  [r |-> r, g |-> a.g, b |-> a.b,
       word |-> U16(Shr(Shl(m, d.fl_redshift) + Shl(m, d.fl_greenshift)
                        + Shl(m, d.fl_blueshift), d.fl_extrashift)),
       c |-> {r}]

\* one pass of the loop body of c565_converter
C565Px(a, p) ==
  LET r == ClampHi(BitAnd(a.r, 7) + p[1])
      g == ClampHi(BitAnd(a.g, 3) + p[2])
      b == ClampHi(BitAnd(a.b, 7) + p[3])
  IN  [r |-> r, g |-> g, b |-> b,
       word |-> U16(Shl(BitAnd(r, 248), 8) + Shl(BitAnd(g, 252), 3) + Shr(b, 3)),
       c |-> {r, g, b}]

\* r = (r&7) + *from; if (r > 255) r = 255; of m565_converter
M565AddAll(r, sample) == ClampHi(r + sample)

M565Add(r, sample) == ClampHi(BitAnd(r, 7) + sample)

\* one pass of the loop body of m565_converter
M565Px(a, p) ==
  LET r == M565Add(a.r, p[1])
  IN  [r |-> r, g |-> a.g, b |-> a.b, word |-> U16(Shr(r, 3) * 2113), c |-> {r}]

\* the loop body of the error-diffusion converter conv
DitherPx(conv, d, a, p) ==
  CASE conv = "color8_converter"  -> Color8Px(a, p)
    [] conv = "mono8_converter"   -> Mono8Px(a, p)
    [] conv = "color16_converter" -> Color16Px(d, a, p)
    [] conv = "mono16_converter"  -> Mono16Px(d, a, p)
    [] conv = "c565_converter"    -> C565Px(a, p)
    [] conv = "m565_converter"    -> M565Px(a, p)

SetMin(S) == CHOOSE v \in S : \A u \in S : v <= u

SetMax(S) == CHOOSE v \in S : \A u \in S : v >= u

\* the one element of a singleton set (a value computed once and then named)
The(S) == CHOOSE x \in S : TRUE

\* one pass of the loop of an error-diffusion converter at pixel position
\* i: a carries the running r, g, b, the destination row and the least and
\* greatest running values seen after the clamp (clo, chi) and at the end
\* of a pass (lo, hi), and the pixel positions visited so far (seen)
DitherStep(conv, d, from, i, a) ==
  LET n == DitherPx(conv, d, a, from[i])
      run == IF conv \in DitheringMono16 THEN {n.r} ELSE {n.r, n.g, n.b}
  IN  [a EXCEPT !.r = n.r, !.g = n.g, !.b = n.b,
                !.to = [@ EXCEPT ![i] = n.word], !.seen = Append(@, i),
                !.lo = Min(@, SetMin(run)), !.hi = Max(@, SetMax(run)),
                !.clo = Min(@, SetMin(n.c)), !.chi = Max(@, SetMax(n.c))]

\* for (; w--; from += d, t += td) {...} of an error-diffusion converter,
\* over the pixel positions in order
RECURSIVE DitherLoop(_, _, _, _, _)
DitherLoop(conv, d, from, order, a) ==
  IF order = << >> THEN a
  ELSE The({ DitherLoop(conv, d, from, Tail(order), next) :
               next \in {DitherStep(conv, d, from, Head(order), a)} })

\* the pixel positions in the order a converter entered with dir visits
\* them: from w-1 down when dir is set, from 0 up otherwise
OrderForward(w, entrydir) == [k \in 1..w |-> k]

Order(w, entrydir) == [k \in 1..w |-> IF entrydir # 0 THEN w + 1 - k ELSE k]

\* an error-diffusion converter called on the row from with the dither
\* state st = [dir, ri, gi, bi]: the state it leaves and what it wrote
DitherCall(conv, d, st, from) ==
  The({ [dir |-> IF st.dir # 0 THEN 0 ELSE 1, ri |-> a.r, gi |-> a.g, bi |-> a.b,
         to |-> a.to, lo |-> a.lo, hi |-> a.hi, clo |-> a.clo, chi |-> a.chi,
         seen |-> a.seen] :
        a \in { DitherLoop(conv, d, from, Order(Len(from), st.dir),
                  [r |-> st.ri, g |-> st.gi, b |-> st.bi,
                   to |-> [k \in 1..Len(from) |-> 0],
                   lo |-> 255, hi |-> 0, clo |-> 255, chi |-> 0,
                   seen |-> << >>]) } })


\* (from[0]*from[3])/255 and its two neighbours in argb_premul_converter
PremulNoDivide(c, alpha) == c * alpha

Premul(c, alpha) == (c * alpha) \div 255

\* what a converter without error diffusion writes for the pixel p: three
\* bytes (24 bit converters) or one 32 bit word (INNARDS32)
PlainPx(conv, d, p) ==
  CASE conv = "rgb_converter"  -> << p[1], p[2], p[3] >>
    [] conv = "bgr_converter"  -> << p[3], p[2], p[1] >>
    [] conv = "rrr_converter"  -> << p[1], p[1], p[1] >>
    [] conv = "rgbx_converter" -> Pack32(<< <<p[1], 24>>, <<p[2], 16>>, <<p[3], 8>> >>)
    [] conv = "xbgr_converter" -> Pack32(<< <<p[1], 0>>, <<p[2], 8>>, <<p[3], 16>> >>)
    [] conv = "xrgb_converter" -> Pack32(<< <<p[1], 16>>, <<p[2], 8>>, <<p[3], 0>> >>)
    [] conv = "argb_premul_converter" ->
         Pack32(<< <<p[4], 24>>, <<Premul(p[1], p[4]), 16>>,
                   <<Premul(p[2], p[4]), 8>>, <<Premul(p[3], p[4]), 0>> >>)
    [] conv = "bgrx_converter" -> Pack32(<< <<p[1], 8>>, <<p[2], 16>>, <<p[3], 24>> >>)
    [] conv = "rrrx_converter" -> Pack32(<< <<p[1], 24>>, <<p[1], 16>>, <<p[1], 8>> >>)
    [] conv = "xrrr_converter" -> Pack32(<< <<p[1], 16>>, <<p[1], 8>>, <<p[1], 0>> >>)
    [] conv = "color32_converter" ->
         Pack32(<< <<p[1], d.fl_redshift>>, <<p[2], d.fl_greenshift>>,
                   <<p[3], d.fl_blueshift>> >>)
    [] conv = "mono32_converter" ->
         Pack32(<< <<p[1], d.fl_redshift>>, <<p[1], d.fl_greenshift>>,
                   <<p[1], d.fl_blueshift>> >>)

\* a converter without error diffusion called on the row from
PlainCall(conv, d, from) == [k \in 1..Len(from) |-> PlainPx(conv, d, from[k])]

\* longest source row, but for the ten pixel row
MaxRow == 2

\* the pixels (r, g, b, a) rows are made of
Pixels == { <<250, 3, 7, 128>>, <<0, 128, 255, 0>>, <<4, 100, 250, 255>> }

\* the 10x1 row of value 128
TenGray == [k \in 1..10 |-> <<128, 128, 128, 128>>]

Rows == UNION { [1..n -> Pixels] : n \in 1..MaxRow } \cup {TenGray}

\* number of converter calls a process makes on rows of samples
MaxCalls == 2

\* conv(from, to, w, delta) on a row of samples
Call(conv, from) ==
  /\ lastcall.n < MaxCalls
  /\ IF conv \in Dithering
     THEN \E res \in {DitherCall(conv, display,
                        [dir |-> dir, ri |-> ri, gi |-> gi, bi |-> bi], from)} :
            /\ dir' = res.dir
            /\ ri' = res.ri
            /\ gi' = res.gi
            /\ bi' = res.bi
            /\ lastcall' =
                 [conv |-> conv, n |-> lastcall.n + 1, dir |-> dir, ri |-> ri,
                  gi |-> gi, bi |-> bi, from |-> from, to |-> res.to,
                  lo |-> res.lo, hi |-> res.hi, clo |-> res.clo, chi |-> res.chi,
                  seen |-> res.seen]
     ELSE /\ UNCHANGED << dir, ri, gi, bi >>
          /\ lastcall' =
               [NoCall EXCEPT !.conv = conv, !.n = lastcall.n + 1, !.dir = dir,
                              !.ri = ri, !.gi = gi, !.bi = bi, !.from = from,
                              !.to = PlainCall(conv, display, from)]
  /\ UNCHANGED << display, build, bytes_per_pixel, scanline_add, scanline_mask,
                  converter, mono_converter, xi, buffer_size, gc32, pc, fr, blits,
                  cbcalls, selections, selected, started, blend >>

\* conv = converter
convert_color == \E from \in Rows : Call(converter, from)

\* if (mono) conv = mono_converter
convert_mono == \E from \in Rows : Call(mono_converter, from)

\* if (alpha) conv = argb_premul_converter
convert_alpha == \E from \in Rows : Call("argb_premul_converter", from)

\* the displays whose converters are run on rows, under the first build
ConvConfigs == CommonDisplays \X {Build(0, 8, TRUE, TRUE)}

\* the process after the converter selection, before any row is converted
InitConv ==
  /\ \E c \in ConvConfigs :
       LET v == figure_out_visual(c[1], c[2], NoVisual)
       IN  /\ ~v.fatal
           /\ display = c[1]
           /\ build = c[2]
           /\ bytes_per_pixel = v.bytes_per_pixel
           /\ scanline_add = v.scanline_add
           /\ scanline_mask = v.scanline_mask
           /\ converter = v.converter
           /\ mono_converter = v.mono_converter
           /\ xi = [byte_order |-> v.byte_order, depth |-> v.depth,
                    bits_per_pixel |-> v.bits_per_pixel, width |-> 0, height |-> 0,
                    data |-> [kind |-> "null", off |-> 0], bytes_per_line |-> 0]
           /\ selected = [bytes_per_pixel |-> v.bytes_per_pixel, depth |-> v.depth,
                          bits_per_pixel |-> v.bits_per_pixel, converter |-> v.converter,
                          mono_converter |-> v.mono_converter]
  /\ dir = 0
  /\ ri = 0
  /\ gi = 0
  /\ bi = 0
  /\ buffer_size = 0
  /\ gc32 = FALSE
  /\ pc = "idle"
  /\ fr = NoFrame
  /\ blits = << >>
  /\ cbcalls = << >>
  /\ selections = 1
  /\ started = TRUE
  /\ lastcall = NoCall
  /\ blend = NoBlend

NextConv ==
  \/ convert_color
  \/ convert_mono
  \/ convert_alpha

SpecConv == InitConv /\ [][NextConv]_vars

(***************************************************************************)
(* Properties of the converters.                                           *)
(***************************************************************************)

\* the running and the saved channel values of the last converter call
Accumulators == {lastcall.lo, lastcall.hi, ri, gi, bi}

\* C8 as stated: after any call of an error-diffusion converter the running
\* r, g, b seen after each pixel and the saved ri, gi, bi are within [0,255].
C8_AccumulatorsInByte ==
  lastcall.conv \in Dithering => \A v \in Accumulators : v >= 0 /\ v <= 255

\* C8: in every error-diffusion converter each channel value is within
\* [0,255] once the sample is added and the clamp applied; the running and
\* saved values of color16, mono16, c565 and m565 are within [0,255], while
\* those of color8 and mono8, which subtract the colour of the chosen
\* colormap entry, are within [-255,255] and can be negative.
C8_Accumulators ==
  lastcall.conv \in Dithering =>
    /\ lastcall.clo >= 0
    /\ lastcall.chi <= 255
    /\ \A v \in Accumulators :
         IF lastcall.conv \in {"color8_converter", "mono8_converter"}
         THEN v >= 0 - 255 /\ v <= 255
         ELSE v >= 0 /\ v <= 255

\* a second call of color8_converter on a two pixel row that carried a
\* negative residual
C8_Witness ==
  /\ lastcall.conv = "color8_converter"
  /\ lastcall.n = 2
  /\ Len(lastcall.from) = 2
  /\ lastcall.lo < 0
  /\ lastcall.ri < 0

\* (v >> 3) * 0x841
M565Word(v) == (v \div 8) * 2113

\* C9 as stated: m565_converter writes (v>>3)*0x841 for a pixel of gray
\* value v, whatever the neighbouring pixels and the earlier calls.
C9_DiffusionFree ==
  lastcall.conv = "m565_converter" =>
    \A i \in 1..Len(lastcall.from) : lastcall.to[i] = M565Word(lastcall.from[i][1])

\* C9: m565_converter writes ((min(255, v + c))>>3)*0x841 for a pixel of
\* gray value v, where c in 0..7 is the low three bits carried from the
\* pixel before it (or from the earlier call); the word is (v>>3)*0x841
\* whenever v is a multiple of 8, so the ten pixel row of value 128 yields
\* ten words (128>>3)*0x841 after any earlier calls.
C9_M565Words ==
  lastcall.conv = "m565_converter" =>
    \A i \in 1..Len(lastcall.from) :
      LET v == lastcall.from[i][1]
      IN  /\ \E c \in 0..7 : lastcall.to[i] = M565Word(Min(255, v + c))
          /\ (v % 8 = 0 => lastcall.to[i] = M565Word(v))

\* m565_converter called on the ten pixel row with a carry left by an
\* earlier call
C9_Witness ==
  /\ lastcall.conv = "m565_converter"
  /\ lastcall.from = TenGray
  /\ lastcall.ri % 8 # 0
  /\ \A i \in 1..10 : lastcall.to[i] = M565Word(128)

\* the fields of the word argb_premul_converter writes for the pixel p
PremulFields(t, p) ==
  /\ t.hi = p[4]
  /\ t.lo \div 65536 = (p[1] * p[4]) \div 255
  /\ (t.lo \div 256) % 256 = (p[2] * p[4]) \div 255
  /\ t.lo % 256 = (p[3] * p[4]) \div 255
  /\ (p[4] = 0 => t.lo = 0)

\* C10 as stated: argb_premul_converter writes a in bits 24-31 and the
\* scaled channels below, zero colour fields for a = 0, and for a = 255 the
\* very word xrgb_converter writes.
C10_PremulIsPlain ==
  lastcall.conv = "argb_premul_converter" =>
    \A i \in 1..Len(lastcall.from) :
      LET p == lastcall.from[i]
      IN  /\ PremulFields(lastcall.to[i], p)
          /\ (p[4] = 255 => lastcall.to[i] = PlainPx("xrgb_converter", display, p))

\* C10: argb_premul_converter writes a in bits 24-31 and (r*a)/255,
\* (g*a)/255, (b*a)/255 in bits 16-23, 8-15, 0-7, none carrying into its
\* neighbour; for a = 0 the colour fields are 0; for a = 255 the colour
\* fields (bits 0-23) equal those of the word xrgb_converter writes, while
\* bits 24-31 hold 255 where xrgb_converter leaves 0.
C10_Premul ==
  lastcall.conv = "argb_premul_converter" =>
    \A i \in 1..Len(lastcall.from) :
      LET p == lastcall.from[i]
          plain == PlainPx("xrgb_converter", display, p)
      IN  /\ PremulFields(lastcall.to[i], p)
          /\ (p[4] = 255 => /\ lastcall.to[i].lo = plain.lo
                            /\ lastcall.to[i].hi = 255
                            /\ plain.hi = 0)

\* argb_premul_converter called on a row with an opaque and a half
\* transparent pixel
C10_Witness ==
  /\ lastcall.conv = "argb_premul_converter"
  /\ \E i, j \in 1..Len(lastcall.from) :
       /\ lastcall.from[i][4] = 255
       /\ lastcall.to[i].lo > 0
       /\ lastcall.from[j][4] = 128
       /\ lastcall.to[j].lo > 0

(***************************************************************************)
(* alpha_blend(): compositing an image with alpha over the window.         *)
(***************************************************************************)

\* an Fl_RGB_Image as alpha_blend() reads it: w(), h(), d(), ld(), array
Image(w, h, d, ld, array) == [w |-> w, h |-> h, d |-> d, ld |-> ld, array |-> array]

\* the 8x8 RGBA image of colour (200,100,50) and alpha 128
Image8x8 ==
  Image(8, 8, 4, 0,
        [i \in 1..256 |-> CASE i % 4 = 1 -> 200 [] i % 4 = 2 -> 100
                            [] i % 4 = 3 -> 50  [] OTHER -> 128])

\* 2x2 images: RGBA without and with extra bytes at the end of each line,
\* and gray + alpha
SmallImages ==
  { Image(2, 2, 4, 0, << 200, 100, 50, 128,  255, 255, 255, 255,
                        10, 20, 30, 0,      255, 0, 255, 1 >>),
    Image(2, 2, 4, 9, << 200, 100, 50, 128,  255, 255, 255, 255,  77,
                        10, 20, 30, 0,      255, 0, 255, 1,      77 >>),
    Image(2, 2, 2, 0, << 200, 128,  255, 255,  9, 0,  255, 254 >>) }

\* what start() leaves of the target rectangle: a non-empty part of the
\* image, cx+W <= w and cy+H <= h
Parts(img) ==
  { p \in [cx : 0..(img.w - 1), cy : 0..(img.h - 1), W : 1..img.w, H : 1..img.h] :
      p.cx + p.W <= img.w /\ p.cy + p.H <= img.h }

\* the (image, part) pairs alpha_blend() is called with
Blends ==
  UNION { { <<img, p>> : p \in Parts(img) } : img \in SmallImages }
  \cup { <<Image8x8, [cx |-> 0, cy |-> 0, W |-> 8, H |-> 8]>> }

\* fl_read_image(dst, X, Y, W, H, 0): the n = W*H*3 bytes of the window
\* contents: black, white, or mixed
ReadBacks(n) ==
  { [i \in 1..n |-> 0], [i \in 1..n |-> 255], [i \in 1..n |-> (i * 53) % 256] }

\* (srcg * srca + dstr * dsta) >> 8 stored into a uchar
BlendDiv255(src, srca, dst, dsta) == ((src * srca + dst * dsta) \div 255) % 256

Blend(src, srca, dst, dsta) == Shr(src * srca + dst * dsta, 8) % 256

\* the body of the inner loops: s holds srcptr and dstptr (as offsets into
\* img->array and dst) and the bytes of dst
BlendPx(img, s) ==
  LET at(k) == img.array[s.srcptr + k + 1]
      srcr == at(0)
      srcg == IF img.d = 2 THEN at(0) ELSE at(1)
      srcb == IF img.d = 2 THEN at(0) ELSE at(2)
      srca == IF img.d = 2 THEN at(1) ELSE at(3)
      dstr == s.dst[s.dstptr + 1]
      dstg == s.dst[s.dstptr + 2]
      dstb == s.dst[s.dstptr + 3]
      dsta == 255 - srca
  IN  [ srcptr |-> s.srcptr + (IF img.d = 2 THEN 2 ELSE 4),
        dstptr |-> s.dstptr + 3,
        dst |-> [s.dst EXCEPT ![s.dstptr + 1] = Blend(srcr, srca, dstr, dsta),
                              ![s.dstptr + 2] = Blend(srcg, srca, dstg, dsta),
                              ![s.dstptr + 3] = Blend(srcb, srca, dstb, dsta)] ]

\* for (int x = W; x > 0; x--) {...}
RECURSIVE BlendRow(_, _, _)
BlendRow(img, s, x) ==
  IF x > 0
  THEN The({ BlendRow(img, next, x - 1) : next \in {BlendPx(img, s)} })
  ELSE s

\* for (int y = H; y > 0; y--, srcptr+=srcskip) ...
RECURSIVE BlendRows(_, _, _, _, _)
BlendRows(img, s, y, W, srcskip) ==
  IF y > 0
  THEN The({ BlendRows(img, [next EXCEPT !.srcptr = @ + srcskip], y - 1, W, srcskip) :
               next \in {BlendRow(img, s, W)} })
  ELSE s

\* the bytes of dst when the loops of alpha_blend() end
Blended(img, W, H, cx, cy, read) ==
  LET ld == IF img.ld = 0 THEN img.w * img.d ELSE img.ld
  IN  BlendRows(img, [srcptr |-> cy * ld + cx * img.d, dstptr |-> 0, dst |-> read],
                H, W, ld - img.d * W).dst

\* where the window is drawn to
BlendOrigins == { <<3, 1>> }

\* alpha_blend(img, X, Y, W, H, cx, cy), up to the point its call
\* fl_draw_image(dst, X, Y, W, H, 3, 0) has entered the chunk loops or
\* returned
alpha_blend ==
  /\ pc = "idle"
  /\ \E b \in Blends, o \in BlendOrigins :
       \E read \in ReadBacks(b[2].W * b[2].H * 3) :
         /\ blend' = [img |-> b[1], X |-> o[1], Y |-> o[2], W |-> b[2].W, H |-> b[2].H,
                      cx |-> b[2].cx, cy |-> b[2].cy, read |-> read,
                      dst |-> Blended(b[1], b[2].W, b[2].H, b[2].cx, b[2].cy, read)]
         /\ innards(TRUE, o[1], o[2], b[2].W, b[2].H, 3, 0, FALSE, FALSE, NoClip)

NextBlend ==
  \/ alpha_blend
  \/ Chunk
  \/ Return

\* a process on one of the common displays, before its first draw
InitBlend == Init /\ << display, build >> \in ConvConfigs

SpecBlend == InitBlend /\ [][NextBlend]_vars

(***************************************************************************)
(* Properties of alpha_blend().                                            *)
(***************************************************************************)

\* the byte k of the source pixel that lands on pixel (x, y) of the target
\* rectangle of the last alpha_blend() call
SourceByte(x, y, k) ==
  LET img == blend.img
      ld == IF img.ld = 0 THEN img.w * img.d ELSE img.ld
  IN  img.array[(blend.cy + y) * ld + (blend.cx + x) * img.d + k + 1]

\* C11: after alpha_blend(), for every pixel of the W x H rectangle and
\* every channel the byte of dst is (src*alpha + read*(255 - alpha)) >> 8
\* of the source channel (the gray value for a gray+alpha image) and the
\* byte read back, which lies in 0..255; dst holds W*H*3 bytes and was passed
\* to the blit engine as a buffer of depth 3, line size W*3, neither mono nor
\* alpha; the 8x8 image of colour (200,100,50) and alpha 128 over a black
\* window gives (100,50,25) at every pixel.
C11_AlphaBlend ==
  blend # NoBlend =>
    /\ Len(blend.dst) = blend.W * blend.H * 3
    /\ \A x \in 0..(blend.W - 1), y \in 0..(blend.H - 1), c \in 0..2 :
         LET i == (y * blend.W + x) * 3 + c + 1
             src == SourceByte(x, y, IF blend.img.d = 2 THEN 0 ELSE c)
             a == SourceByte(x, y, blend.img.d - 1)
             v == (src * a + blend.read[i] * (255 - a)) \div 256
         IN  /\ v >= 0
             /\ v <= 255
             /\ blend.dst[i] = v
             /\ (blend.img = Image8x8 /\ blend.read[i] = 0 =>
                   blend.dst[i] = << 100, 50, 25 >>[c + 1])
    /\ fr.buf
    /\ << fr.X, fr.Y, fr.W, fr.H >> = << blend.X, blend.Y, blend.W, blend.H >>
    /\ fr.delta = 3
    /\ fr.linedelta = blend.W * 3
    /\ ~fr.mono
    /\ ~fr.alpha

\* the 8x8 image blended over a black window, and the draw has returned
C11_Witness ==
  /\ blend.img = Image8x8
  /\ blend.read = [i \in 1..192 |-> 0]
  /\ blend.dst[1] = 100
  /\ blend.dst[192] = 25
  /\ Returned

(***************************************************************************)
(* Converter selection run repeatedly.                                     *)
(***************************************************************************)

\* figure_out_visual() run on the current static state
run_figure_out_visual ==
  /\ pc = "idle"
  /\ selections < MaxCount
  /\ \E v \in {figure_out_visual(display, build, Visual)} :
       /\ bytes_per_pixel' = v.bytes_per_pixel
       /\ scanline_add' = v.scanline_add
       /\ scanline_mask' = v.scanline_mask
       /\ converter' = v.converter
       /\ mono_converter' = v.mono_converter
       /\ xi' = [xi EXCEPT !.byte_order = v.byte_order, !.depth = v.depth,
                           !.bits_per_pixel = v.bits_per_pixel]
       /\ pc' = IF v.fatal THEN "fatal" ELSE "idle"
       /\ selected' = IF selections = 0 /\ ~v.fatal
                      THEN [bytes_per_pixel |-> v.bytes_per_pixel, depth |-> v.depth,
                            bits_per_pixel |-> v.bits_per_pixel,
                            converter |-> v.converter,
                            mono_converter |-> v.mono_converter]
                      ELSE selected
  /\ selections' = selections + 1
  /\ UNCHANGED << display, build, dir, ri, gi, bi, buffer_size, gc32, fr, blits,
                  cbcalls, started, lastcall, blend >>

\* a process on any display under any build, before the first selection
InitSelect ==
  /\ \E c \in Displays \X Builds : display = c[1] /\ build = c[2]
  /\ bytes_per_pixel = 0
  /\ scanline_add = 0
  /\ scanline_mask = 0
  /\ converter = "none"
  /\ mono_converter = "none"
  /\ xi = [byte_order |-> 0, depth |-> 0, bits_per_pixel |-> 0, width |-> 0,
           height |-> 0, data |-> [kind |-> "null", off |-> 0], bytes_per_line |-> 0]
  /\ dir = 0
  /\ ri = 0
  /\ gi = 0
  /\ bi = 0
  /\ buffer_size = 0
  /\ gc32 = FALSE
  /\ pc = "idle"
  /\ fr = NoFrame
  /\ blits = << >>
  /\ cbcalls = << >>
  /\ selections = 0
  /\ selected = [bytes_per_pixel |-> 0, depth |-> 0, bits_per_pixel |-> 0,
                 converter |-> "none", mono_converter |-> "none"]
  /\ started = FALSE
  /\ lastcall = NoCall
  /\ blend = NoBlend

NextSelect == run_figure_out_visual

SpecSelect == InitSelect /\ [][NextSelect]_vars

\* C12: a run of figure_out_visual() that follows an earlier run on the
\* same display leaves converter, mono_converter, bytes_per_pixel,
\* scanline_add, scanline_mask, xi.byte_order (and xi.depth,
\* xi.bits_per_pixel) as that run left them, and is not fatal.
C12_Idempotent ==
  [][ selections >= 1 /\ selections' > selections =>
        /\ converter' = converter
        /\ mono_converter' = mono_converter
        /\ bytes_per_pixel' = bytes_per_pixel
        /\ scanline_add' = scanline_add
        /\ scanline_mask' = scanline_mask
        /\ xi' = xi
        /\ pc' = "idle" ]_vars

\* selection was run again on a display where it binds the generic 32 bit
\* converters and overwrites xi.byte_order
C12_Witness ==
  /\ selections >= 2
  /\ pc = "idle"
  /\ xi.byte_order # display.byte_order
  /\ converter = "color32_converter"

(***************************************************************************)
(* Serpentine traversal.                                                   *)
(***************************************************************************)

\* C13: every call of an error-diffusion converter flips dir exactly once
\* and visits the w pixel positions of its row (source and destination
\* alike) from w-1 down to 0 when dir was set on entry and from 0 up to w-1
\* otherwise, each position once, so successive such calls alternate; a
\* call of any other converter leaves dir, ri, gi, bi as they were and
\* writes equal words for equal source pixels.
C13_Serpentine ==
  [][ lastcall'.n = lastcall.n + 1 =>
        LET w == Len(lastcall'.from)
        IN  IF lastcall'.conv \in Dithering
            THEN /\ dir' = 1 - dir
                 /\ lastcall'.dir = dir
                 /\ Len(lastcall'.seen) = w
                 /\ \A k \in 1..w :
                      lastcall'.seen[k] = IF dir = 1 THEN w + 1 - k ELSE k
                 /\ (lastcall.conv \in Dithering => lastcall'.dir = 1 - lastcall.dir)
            ELSE /\ << dir', ri', gi', bi' >> = << dir, ri, gi, bi >>
                 /\ Len(lastcall'.to) = w
                 /\ \A i, k \in 1..w :
                      lastcall'.from[i] = lastcall'.from[k] =>
                        lastcall'.to[i] = lastcall'.to[k] ]_vars

\* a reverse call of an error-diffusion converter on a row of two
\* different pixels, the call after a forward one
C13_Witness ==
  /\ lastcall.conv \in Dithering
  /\ lastcall.n = 2
  /\ lastcall.dir = 1
  /\ dir = 0
  /\ lastcall.seen = << 2, 1 >>
  /\ lastcall.from[1] # lastcall.from[2]

\* ------------------------------------------------------------------
\* The working buffer
\* ------------------------------------------------------------------

\* the rows of the chunk being converted fit the allocated buffer:
\* row k of the chunk is written at buffer + k*linesize
RowsInside(k, linesize, size) == k = 0 \/ (linesize > 0 /\ k <= size \div linesize)

\* C14: buffer_size never decreases and never exceeds MAXBUFFER, and every
\* row the converter writes in the general path lies inside the allocated
\* buffer: a chunk of k rows has k <= blocking and k*linesize <= buffer_size
C14_BufferSafe ==
  [][ /\ buffer_size' >= buffer_size
      /\ buffer_size' <= MAXBUFFER
      /\ (pc = "loop" /\ pc' = "loop" /\ fr'.j > fr.j
            => /\ fr'.j - fr.j <= fr.blocking
               /\ RowsInside(fr'.j - fr.j, fr.linesize, buffer_size)) ]_vars

====
